---- MODULE Spec2Model ----
(***************************************************************************)
(* Model of shinwa_agent.config.settings (the Settings record, its         *)
(* resolution from defaults / .env file / process environment, and the     *)
(* get_settings / reload_settings singleton) and of shinwa_agent.main      *)
(* (the module-level `settings` binding, the CORS middleware and the bind  *)
(* parameters).                                                            *)
(*                                                                         *)
(* One representative field is modelled for every distinct resolution      *)
(* behaviour of the class: a str field (api_host), an int field            *)
(* (api_port), a List[str] field (cors_origins, JSON-decoded by the        *)
(* settings sources) and a str field whose default is read from the        *)
(* process environment when the class body runs (openai_api_key).          *)
(* Input names are written in the lower-cased form the sources match on    *)
(* (case_sensitive=False).                                                 *)
(***************************************************************************)
EXTENDS Integers, Sequences, FiniteSets, TLC

VARIABLES
    environ,        \* os.environ: a function from the names that are set to their text
    envfile,        \* the .env file: a function from the keys it holds to their text
    class_defaults, \* the defaults bound when the class body of Settings ran
    heap,           \* every Settings instance constructed so far; identity = index
    _settings,      \* the module global _settings: 0 is None, else an index of heap
    op,             \* the most recent call: "none", "get_settings", "reload_settings"
    ret,            \* the instance that call returned; 0 when it raised (or no call yet)
    raised,         \* whether that call raised
    at,             \* the value of `changes` when that call was made
    prev,           \* <<op, ret, raised, at>> of the call before the most recent one
    calls,          \* number of get_settings / reload_settings calls made
    changes,        \* number of edits made to os.environ and the .env file
    main,           \* shinwa_agent.main: state of the module and what it captured
    pc,             \* per thread: position inside get_settings / reload_settings
    local,          \* per thread: the instance its own Settings() call produced (0: none)
    tret            \* per thread: the instance its last call returned (0: none)

vars == <<environ, envfile, class_defaults, heap, _settings, op, ret, raised,
          at, prev, calls, changes, main, pc, local, tret>>

(***************************************************************************)
(* Bounds                                                                  *)
(***************************************************************************)
MaxCalls == 3
MaxChanges == 2
MaxConcChanges == 1

Threads == {1, 2}

(***************************************************************************)
(* Input text                                                              *)
(***************************************************************************)
Fields == {"api_host", "api_port", "cors_origins", "openai_api_key"}

InputKeys == Fields \cup {"unknown_field"}

\* JSON text is kept as its sequence of lexical tokens.
LBracket == [t |-> "punct", v |-> "["]
RBracket == [t |-> "punct", v |-> "]"]
Comma == [t |-> "punct", v |-> ","]
StrLit(s) == [t |-> "string", v |-> s]
Bare(s) == [t |-> "bare", v |-> s]

NotAnInteger == <<"n", "o", "t", "_", "a", "n", "_", "i", "n", "t", "e", "g", "e", "r">>

\* The texts the host may give each input name.
InputTexts(k) ==
    CASE k = "api_host" -> {"127.0.0.1", "10.0.0.5"}
      [] k = "api_port" -> { <<"9", "0", "0", "1">>, NotAnInteger }
      [] k = "cors_origins" -> { <<LBracket, StrLit("https://a.example"), Comma,
                                   StrLit("https://b.example"), RBracket>>,
                                 <<Bare("https://a.example")>> }
      [] k = "openai_api_key" -> {"sk-later"}
      [] k = "unknown_field" -> {"foo"}

(***************************************************************************)
(* Type coercion                                                           *)
(***************************************************************************)
Digits == {"0", "1", "2", "3", "4", "5", "6", "7", "8", "9"}

DigitValue(c) ==
    CASE c = "0" -> 0 [] c = "1" -> 1 [] c = "2" -> 2 [] c = "3" -> 3 [] c = "4" -> 4
      [] c = "5" -> 5 [] c = "6" -> 6 [] c = "7" -> 7 [] c = "8" -> 8 [] c = "9" -> 9

RECURSIVE DecimalValue(_)
DecimalValue(s) ==
    IF s = <<>> THEN 0
    ELSE 10 * DecimalValue(SubSeq(s, 1, Len(s) - 1)) + DigitValue(s[Len(s)])


\* Variant: text that is no numeral silently yields the field's default.
CoerceIntOrDefault(s) ==
    IF Len(s) > 0 /\ \A i \in 1..Len(s) : s[i] \in Digits
    THEN [ok |-> TRUE, v |-> DecimalValue(s)]
    ELSE [ok |-> TRUE, v |-> 8000]

\* int field: the text must be a decimal numeral.
CoerceInt(s) ==
    IF Len(s) > 0 /\ \A i \in 1..Len(s) : s[i] \in Digits
    THEN [ok |-> TRUE, v |-> DecimalValue(s)]
    ELSE [ok |-> FALSE, v |-> 0]

\* json.loads on the text of a complex (List) field.
JsonLoads(raw) ==
    LET n == Len(raw)
        inner == SubSeq(raw, 2, n - 1)
        m == Len(inner)
    IN  IF n = 1 /\ raw[1].t = "string"
        THEN [ok |-> TRUE, kind |-> "str", items |-> <<raw[1].v>>]
        ELSE IF /\ n >= 2
                /\ raw[1] = LBracket
                /\ raw[n] = RBracket
                /\ (m = 0 \/ m % 2 = 1)
                /\ \A i \in 1..m : IF i % 2 = 1 THEN inner[i].t = "string"
                                               ELSE inner[i] = Comma
        THEN [ok |-> TRUE, kind |-> "list",
              items |-> [j \in 1..((m + 1) \div 2) |-> inner[2 * j - 1].v]]
        ELSE [ok |-> FALSE, kind |-> "none", items |-> <<>>]

\* List[str] field: the decoded JSON value must be a list (of strings).
CoerceStrList(j) ==
    IF j.kind = "list" THEN [ok |-> TRUE, v |-> j.items]
    ELSE [ok |-> FALSE, v |-> <<>>]

(***************************************************************************)
(* Settings: defaults, sources, construction                               *)
(***************************************************************************)
\* os.getenv(name, "") as evaluated in the class body.
GetEnv(e, name) == IF name \in DOMAIN e THEN e[name] ELSE ""

\* The field defaults of the class; openai_api_key's was read from the environment
\* `e` that the process had when the class body ran.
ClassDefaults(e) ==
    [api_host |-> "0.0.0.0",
     api_port |-> 8000,
     cors_origins |-> <<"http://localhost:3000", "http://127.0.0.1:3000">>,
     openai_api_key |-> GetEnv(e, "openai_api_key")]


\* Variant: extra="forbid".
ExtraPolicyForbid == "forbid"

\* model_config: env_file=".env" makes the file a source; extra decides what
\* becomes of keys that name no field.
ExtraPolicy == "ignore"

\* A settings source's values, the complex field JSON-decoded by the source
\* itself.  ok = FALSE: the source raised on text that is not JSON.
Decoded(src, keys) ==
    LET bad == "cors_origins" \in keys /\ ~JsonLoads(src["cors_origins"]).ok
    IN  [ok |-> ~bad,
         data |-> [k \in keys |-> IF k = "cors_origins" /\ ~bad
                                  THEN JsonLoads(src[k]) ELSE src[k]]]

\* The environment source looks up the fields' names in os.environ and nothing else.
EnvSource(e) == Decoded(e, DOMAIN e \cap Fields)

\* The dotenv source yields the fields found in the file and, besides, the
\* file's keys that name no field.
DotEnvSource(f) == Decoded(f, DOMAIN f)


\* Variant: the sources merged in the opposite order (the file wins).
OverlayFileWins(high, low) ==
    [k \in DOMAIN high \cup DOMAIN low |-> IF k \in DOMAIN low THEN low[k] ELSE high[k]]

\* deep_update: the higher-priority source's value wins for a key both hold.
Overlay(high, low) ==
    [k \in DOMAIN high \cup DOMAIN low |-> IF k \in DOMAIN high THEN high[k] ELSE low[k]]


\* Variant: openai_api_key's default is read when the instance is built (by then
\* the state holds whatever the environment has), not when the class body ran.
ValidateFieldLateDefault(k, state, defaults) ==
    IF k \notin DOMAIN state
    THEN [ok |-> TRUE, v |-> IF k = "openai_api_key" THEN "" ELSE defaults[k]]
    ELSE CASE k = "api_port" -> CoerceInt(state[k])
           [] k = "cors_origins" -> CoerceStrList(state[k])
           [] OTHER -> [ok |-> TRUE, v |-> state[k]]

\* Validation of one field of the merged state against its declared type; a
\* field the state lacks takes the class default.
ValidateField(k, state, defaults) ==
    IF k \notin DOMAIN state THEN [ok |-> TRUE, v |-> defaults[k]]
    ELSE CASE k = "api_port" -> CoerceInt(state[k])
           [] k = "cors_origins" -> CoerceStrList(state[k])
           [] OTHER -> [ok |-> TRUE, v |-> state[k]]

\* Settings(): [ok |-> TRUE, inst |-> the instance] or ok = FALSE when it raises.
NewSettings(e, f, defaults) ==
    LET envSrc == EnvSource(e)
        fileSrc == DotEnvSource(f)
        state == Overlay(envSrc.data, fileSrc.data)
        extras == DOMAIN state \ Fields
        valid == /\ envSrc.ok
                 /\ fileSrc.ok
                 /\ (ExtraPolicy = "forbid" => extras = {})
                 /\ \A k \in Fields : ValidateField(k, state, defaults).ok
    IN  [ok |-> valid,
         inst |-> IF valid THEN [k \in Fields |-> ValidateField(k, state, defaults).v]
                  ELSE defaults]

(***************************************************************************)
(* Initial state: settings.py has been imported, nothing has been called   *)
(***************************************************************************)
ImportEnvs == { <<>> } \cup { [k \in {"openai_api_key"} |-> "sk-import"] }

NoMain == [state |-> "unimported", settings |-> 0, allow_origins |-> <<>>,
           host |-> "", port |-> 0]

Init ==
    /\ environ \in ImportEnvs
    /\ envfile = <<>>
    /\ class_defaults = ClassDefaults(environ)
    /\ heap = <<>>
    /\ _settings = 0
    /\ op = "none"
    /\ ret = 0
    /\ raised = FALSE
    /\ at = 0
    /\ prev = <<"none", 0, FALSE, 0>>
    /\ calls = 0
    /\ changes = 0
    /\ main = NoMain
    /\ pc = [t \in Threads |-> "idle"]
    /\ local = [t \in Threads |-> 0]
    /\ tret = [t \in Threads |-> 0]

(***************************************************************************)
(* The host edits os.environ and the .env file                             *)
(***************************************************************************)
Put(src, k, v) == [x \in DOMAIN src \cup {k} |-> IF x = k THEN v ELSE src[x]]
Drop(src, k) == [x \in DOMAIN src \ {k} |-> src[x]]

threadVars == <<pc, local, tret>>
callVars == <<heap, _settings, op, ret, raised, at, prev, calls>>

SetEnv ==
    /\ changes < MaxChanges
    /\ \E k \in InputKeys : \E v \in InputTexts(k) :
          /\ ~(k \in DOMAIN environ /\ environ[k] = v)
          /\ environ' = Put(environ, k, v)
    /\ changes' = changes + 1
    /\ UNCHANGED <<envfile, class_defaults, callVars, main, threadVars>>

UnsetEnv ==
    /\ changes < MaxChanges
    /\ \E k \in DOMAIN environ : environ' = Drop(environ, k)
    /\ changes' = changes + 1
    /\ UNCHANGED <<envfile, class_defaults, callVars, main, threadVars>>

WriteFile ==
    /\ changes < MaxChanges
    /\ \E k \in InputKeys : \E v \in InputTexts(k) :
          /\ ~(k \in DOMAIN envfile /\ envfile[k] = v)
          /\ envfile' = Put(envfile, k, v)
    /\ changes' = changes + 1
    /\ UNCHANGED <<environ, class_defaults, callVars, main, threadVars>>

RemoveFile ==
    /\ changes < MaxChanges
    /\ \E k \in DOMAIN envfile : envfile' = Drop(envfile, k)
    /\ changes' = changes + 1
    /\ UNCHANGED <<environ, class_defaults, callVars, main, threadVars>>

(***************************************************************************)
(* get_settings / reload_settings, called sequentially                     *)
(***************************************************************************)

\* Variant: the guard is lost and every call constructs.
CacheEmptyAlways(cached) == TRUE

\* `_settings is None`
CacheEmpty(cached) == cached = 0


\* Variant: a cached instance is overwritten in place instead of being replaced.
ConstructInPlace(inst) ==
    IF _settings = 0
    THEN heap' = Append(heap, inst) /\ _settings' = Len(heap) + 1
    ELSE heap' = [heap EXCEPT ![_settings] = inst] /\ _settings' = _settings

\* `_settings = Settings()` when Settings() returned `inst`: a new object is
\* bound to the global.
Construct(inst) ==
    /\ heap' = Append(heap, inst)
    /\ _settings' = Len(heap) + 1


\* Variant: the global is cleared before Settings() is evaluated.
PropagateCleared == heap' = heap /\ _settings' = 0

\* Settings() raised: the assignment never runs.
Propagate == UNCHANGED <<heap, _settings>>

\* Book-keeping of one call: its name and what the caller got back.
Called(name, failed) ==
    /\ calls < MaxCalls
    /\ calls' = calls + 1
    /\ prev' = <<op, ret, raised, at>>
    /\ at' = changes
    /\ op' = name
    /\ raised' = failed
    /\ ret' = IF failed THEN 0 ELSE _settings'

\* One whole call of get_settings().
GetCall ==
    IF CacheEmpty(_settings)
    THEN LET new == NewSettings(environ, envfile, class_defaults)
         IN  IF new.ok
             THEN Construct(new.inst) /\ Called("get_settings", FALSE)
             ELSE Propagate /\ Called("get_settings", TRUE)
    ELSE UNCHANGED <<heap, _settings>> /\ Called("get_settings", FALSE)

GetSettings ==
    /\ GetCall
    /\ UNCHANGED <<environ, envfile, class_defaults, changes, main, threadVars>>

\* What the module keeps of the instance `i` that get_settings() returned to it:
\* the binding `settings`, allow_origins=settings.cors_origins, and, when run as
\* a script, host=settings.api_host and port=settings.api_port.
MainCapture(i, inst, asScript) ==
    [state |-> IF asScript THEN "serving" ELSE "imported",
     settings |-> i,
     allow_origins |-> inst.cors_origins,
     host |-> IF asScript THEN inst.api_host ELSE "",
     port |-> IF asScript THEN inst.api_port ELSE 0]

\* Variant: reload behaves like get and hands back the cached instance.
ReloadSettingsCached ==
    /\ LET new == NewSettings(environ, envfile, class_defaults)
       IN  IF _settings # 0
           THEN UNCHANGED <<heap, _settings>> /\ Called("reload_settings", FALSE)
           ELSE IF new.ok
           THEN Construct(new.inst) /\ Called("reload_settings", FALSE)
           ELSE Propagate /\ Called("reload_settings", TRUE)
    /\ UNCHANGED <<environ, envfile, class_defaults, changes, main, threadVars>>

\* Variant: a reload also rebinds what shinwa_agent.main captured.
ReloadSettingsRebinding ==
    /\ LET new == NewSettings(environ, envfile, class_defaults)
       IN  IF new.ok
           THEN /\ Construct(new.inst)
                /\ Called("reload_settings", FALSE)
                /\ main' = IF main.state \in {"imported", "serving"}
                           THEN MainCapture(Len(heap) + 1, new.inst, main.state = "serving")
                           ELSE main
           ELSE Propagate /\ Called("reload_settings", TRUE) /\ main' = main
    /\ UNCHANGED <<environ, envfile, class_defaults, changes, threadVars>>

ReloadSettings ==
    /\ LET new == NewSettings(environ, envfile, class_defaults)
       IN  IF new.ok
           THEN Construct(new.inst) /\ Called("reload_settings", FALSE)
           ELSE Propagate /\ Called("reload_settings", TRUE)
    /\ UNCHANGED <<environ, envfile, class_defaults, changes, main, threadVars>>

(***************************************************************************)
(* shinwa_agent.main                                                       *)
(***************************************************************************)
\* Execution of the module body, by import or as __main__.  A get_settings()
\* that raises aborts it.
MainModule ==
    /\ main.state = "unimported"
    /\ GetCall
    /\ \E asScript \in BOOLEAN :
          main' = IF raised' THEN [NoMain EXCEPT !.state = "failed"]
                  ELSE MainCapture(ret', heap'[ret'], asScript)
    /\ UNCHANGED <<environ, envfile, class_defaults, changes, threadVars>>

Next ==
    \/ SetEnv
    \/ UnsetEnv
    \/ WriteFile
    \/ RemoveFile
    \/ GetSettings
    \/ ReloadSettings
    \/ MainModule

Spec == Init /\ [][Next]_vars

(***************************************************************************)
(* get_settings / reload_settings called from two threads: one action per  *)
(* read or write of the module global                                      *)
(***************************************************************************)
seqVars == <<op, ret, raised, at, prev, main>>

\* The environment is edited while the threads run.
TSetEnv ==
    /\ changes < MaxConcChanges
    /\ SetEnv

\* A thread enters get_settings() or reload_settings().
TCall(t) ==
    /\ pc[t] \in {"idle", "get_done", "reload_done", "raised"}
    /\ calls < MaxCalls
    /\ calls' = calls + 1
    /\ \E first \in {"get_check", "reload_new"} : pc' = [pc EXCEPT ![t] = first]
    /\ local' = [local EXCEPT ![t] = 0]
    /\ tret' = [tret EXCEPT ![t] = 0]
    /\ UNCHANGED <<environ, envfile, class_defaults, heap, _settings, changes, seqVars>>

\* `if _settings is None:`
TCheck(t) ==
    /\ pc[t] = "get_check"
    /\ pc' = [pc EXCEPT ![t] = IF CacheEmpty(_settings) THEN "get_new" ELSE "get_return"]
    /\ UNCHANGED <<environ, envfile, class_defaults, heap, _settings, calls, changes,
                   local, tret, seqVars>>

\* The right-hand side `Settings()`: the instance exists, the global is not yet written.
TNew(t) ==
    /\ pc[t] \in {"get_new", "reload_new"}
    /\ LET new == NewSettings(environ, envfile, class_defaults)
       IN  IF new.ok
           THEN /\ heap' = Append(heap, new.inst)
                /\ local' = [local EXCEPT ![t] = Len(heap) + 1]
                /\ pc' = [pc EXCEPT ![t] = IF pc[t] = "get_new" THEN "get_store"
                                                                ELSE "reload_store"]
           ELSE /\ UNCHANGED <<heap, local>>
                /\ pc' = [pc EXCEPT ![t] = "raised"]
    /\ UNCHANGED <<environ, envfile, class_defaults, _settings, calls, changes,
                   tret, seqVars>>


\* Variant: set-once semantics, an instance already cached is kept.
StoredOnce(current, mine) == IF current = 0 THEN mine ELSE current

\* The value the store `_settings = <instance>` leaves in the global.
Stored(current, mine) == mine

\* `_settings = ...`
TStore(t) ==
    /\ pc[t] \in {"get_store", "reload_store"}
    /\ _settings' = Stored(_settings, local[t])
    /\ pc' = [pc EXCEPT ![t] = IF pc[t] = "get_store" THEN "get_return"
                                                      ELSE "reload_return"]
    /\ UNCHANGED <<environ, envfile, class_defaults, heap, calls, changes,
                   local, tret, seqVars>>

\* `return _settings`: the global is read again.
TReturn(t) ==
    /\ pc[t] \in {"get_return", "reload_return"}
    /\ tret' = [tret EXCEPT ![t] = _settings]
    /\ pc' = [pc EXCEPT ![t] = IF pc[t] = "get_return" THEN "get_done"
                                                       ELSE "reload_done"]
    /\ UNCHANGED <<environ, envfile, class_defaults, heap, _settings, calls, changes,
                   local, seqVars>>

NextConc ==
    \/ TSetEnv
    \/ \E t \in Threads : TCall(t)
    \/ \E t \in Threads : TCheck(t)
    \/ \E t \in Threads : TNew(t)
    \/ \E t \in Threads : TStore(t)
    \/ \E t \in Threads : TReturn(t)

SpecConc == Init /\ [][NextConc]_vars
(***************************************************************************)
(* Properties                                                              *)
(***************************************************************************)
KEY == "openai_api_key"
UNKNOWN == "unknown_field"

\* A step that is one call of get_settings() / reload_settings().
CallStep == calls' = calls + 1
GetStep == CallStep /\ op' = "get_settings"
ReloadStep == CallStep /\ op' = "reload_settings"
\* A call that has to evaluate Settings().
AttemptStep == CallStep /\ (op' = "reload_settings" \/ _settings = 0)
\* A step in which a Settings instance came into being.
BuildStep == Len(heap') = Len(heap) + 1
Newest(h) == h[Len(h)]

\* The documented meaning of the input texts.
Malformed(k, text) ==
    \/ k = "api_port" /\ text = NotAnInteger
    \/ k = "cors_origins" /\ text = <<Bare("https://a.example")>>

Denotes(k, text) ==
    CASE k = "api_port" -> IF text = <<"9", "0", "0", "1">> THEN 9001 ELSE -1
      [] k = "cors_origins" ->
            IF text = <<LBracket, StrLit("https://a.example"), Comma,
                        StrLit("https://b.example"), RBracket>>
            THEN <<"https://a.example", "https://b.example">>
            ELSE <<>>
      [] OTHER -> text

DocumentedDefault(k) ==
    CASE k = "api_host" -> "0.0.0.0"
      [] k = "api_port" -> 8000
      [] k = "cors_origins" -> <<"http://localhost:3000", "http://127.0.0.1:3000">>
      [] k = KEY -> class_defaults.openai_api_key

IsSet(k) == k \in DOMAIN environ \/ k \in DOMAIN envfile
\* defaults < environment file < live environment
Resolved(k) ==
    IF k \in DOMAIN environ THEN Denotes(k, environ[k])
    ELSE IF k \in DOMAIN envfile THEN Denotes(k, envfile[k])
    ELSE DocumentedDefault(k)
Winning(k) == IF k \in DOMAIN environ THEN environ[k] ELSE envfile[k]

\* C1: a get_settings() call that follows a successful get_settings() call, with
\* no reload_settings() between them and whatever was done to the environment
\* and the file meanwhile, returns the same instance and constructs nothing.
C1_GetReturnsCachedInstance ==
    [][(GetStep /\ op = "get_settings" /\ ~raised)
        => (ret' = ret /\ ~raised' /\ heap' = heap /\ _settings' = _settings)]_vars

\* Two get_settings() calls in a row with an edit of the inputs between them,
\* the edit being one the first-built instance does not reflect.
W1_SecondGetAfterEdit ==
    /\ prev = <<"get_settings", 1, FALSE, 0>>
    /\ op = "get_settings" /\ ret = 1 /\ at = 1
    /\ Len(heap) = 1
    /\ "api_host" \in DOMAIN environ
    /\ heap[1].api_host = "0.0.0.0"

C4_AnyMalformedInputRaises ==
    [][(AttemptStep /\ \E k \in Fields :
            \/ k \in DOMAIN environ /\ Malformed(k, environ[k])
            \/ k \in DOMAIN envfile /\ Malformed(k, envfile[k]))
        => raised']_vars

\* C4 amended: whenever the value that takes precedence for a field (the
\* environment's, else the file's) cannot be coerced to the field's type, the
\* call that evaluates Settings() raises, returns nothing and builds nothing.
C4_WinningMalformedInputRaises ==
    [][(AttemptStep /\ \E k \in Fields : IsSet(k) /\ Malformed(k, Winning(k)))
        => (raised' /\ ret' = 0 /\ heap' = heap)]_vars

\* The first call, made with API_PORT=not_an_integer in the environment, raised.
W4_NotAnIntegerRaised ==
    /\ calls = 1 /\ changes = 1 /\ at = 1
    /\ "api_port" \in DOMAIN environ /\ environ["api_port"] = NotAnInteger
    /\ raised /\ ret = 0 /\ heap = <<>>

\* C5: a key that names no field, in the environment or in the file, changes
\* nothing: the call fails exactly when it would fail with the key removed from
\* both, and the instance it builds is the one built with the key removed.
C5_UnknownKeyIgnored ==
    [][AttemptStep =>
          LET without == NewSettings(Drop(environ, UNKNOWN), Drop(envfile, UNKNOWN),
                                     class_defaults)
          IN  /\ raised' <=> ~without.ok
              /\ ~raised' => heap'[ret'] = without.inst]_vars

\* An instance built while UNKNOWN_FIELD=foo is in the file and in the environment.
W5_BuiltWithUnknownKey ==
    /\ calls = 1 /\ changes = 2 /\ at = 2
    /\ UNKNOWN \in DOMAIN environ /\ UNKNOWN \in DOMAIN envfile
    /\ ~raised /\ ret = 1 /\ Len(heap) = 1

\* C6: no step changes the field values of an instance that exists; instances
\* are only ever added.
C6_InstancesAreFixed ==
    [][\A i \in 1..Len(heap) : i <= Len(heap') /\ heap'[i] = heap[i]]_vars

\* A reload built instance 2, which differs from instance 1, the instance the
\* call before it had returned.
W6_OldInstanceKept ==
    /\ op = "reload_settings" /\ ret = 2 /\ prev[2] = 1
    /\ _settings = 2 /\ Len(heap) = 2
    /\ heap[1] # heap[2]

\* C7: every store of a thread into the global overwrites whatever another
\* thread stored there: the last write wins.
C7_LastWriteWins ==
    [][\A t \in Threads :
          (pc[t] \in {"get_store", "reload_store"} /\ pc'[t] # pc[t])
             => _settings' = local[t]]_vars

\* Two concurrent first get_settings() calls, no reload: both threads built an
\* instance and stored it, and the cache holds only one of the two.
W7_BothConstructed ==
    /\ calls = 2 /\ Len(heap) = 2
    /\ \A t \in Threads : pc[t] = "get_done" /\ local[t] # 0
    /\ local[1] # local[2]
    /\ _settings \in {local[1], local[2]}

\* C8: a call that raises leaves the cache and the instances as they were; the
\* get_settings() after a reload that raised on a non-empty cache returns the
\* cached instance and constructs nothing; the get_settings() after a
\* get_settings() that raised finds the cache empty and evaluates Settings()
\* on the inputs as they are then.
C8_FailureLeavesCache ==
    [][/\ (CallStep /\ raised') => (_settings' = _settings /\ heap' = heap)
       /\ (GetStep /\ op = "reload_settings" /\ raised /\ _settings # 0)
            => (ret' = _settings /\ ~raised' /\ heap' = heap)
       /\ (GetStep /\ op = "get_settings" /\ raised)
            => LET new == NewSettings(environ, envfile, class_defaults)
               IN  /\ _settings = 0
                   /\ raised' <=> ~new.ok
                   /\ new.ok => (heap' = Append(heap, new.inst) /\ ret' = Len(heap'))]_vars

\* get_settings() right after a reload that raised: the instance cached before.
W8_GetAfterFailedReload ==
    /\ prev[1] = "reload_settings" /\ prev[3]
    /\ op = "get_settings" /\ ~raised /\ ret = 1
    /\ _settings = 1 /\ Len(heap) = 1

\* C9: the default of openai_api_key is what os.getenv returned when the class
\* body ran and never changes; an instance built while the key is in neither
\* the environment nor the file holds that import-time value.
C9_ImportTimeDefault ==
    /\ class_defaults.openai_api_key = GetEnv(environ, KEY)
    /\ [][/\ class_defaults' = class_defaults
          /\ (BuildStep /\ ~IsSet(KEY))
               => Newest(heap').openai_api_key = class_defaults.openai_api_key]_vars

\* The key was set at import, then changed (instance 1 saw the new value), then
\* removed: instance 2, built after the removal, holds the import-time value.
W9_RemovedKeySurvives ==
    /\ Len(heap) = 2
    /\ heap[1].openai_api_key = "sk-later"
    /\ heap[2].openai_api_key = "sk-import"
    /\ ~IsSet(KEY)

\* C10: once shinwa_agent.main has run, what it captured never changes, and it
\* is the instance its one get_settings() call returned: the origins given to
\* the CORS middleware (and the bind host and port) are that instance's.
C10_MainKeepsFirstSettings ==
    /\ [](main.state \in {"imported", "serving"} =>
             /\ main.settings \in 1..Len(heap)
             /\ main.allow_origins = heap[main.settings].cors_origins
             /\ main.state = "serving" =>
                   /\ main.host = heap[main.settings].api_host
                   /\ main.port = heap[main.settings].api_port)
    /\ [][main.state # "unimported" => main' = main]_vars

\* The server runs on instance 1 while a reload has cached an instance with
\* other origins and another port.
W10_ReloadedBehindMain ==
    /\ main.state = "serving" /\ main.settings = 1
    /\ _settings = 2
    /\ heap[2].cors_origins # main.allow_origins
    /\ heap[2].api_port # main.port
====
